---- MODULE Spec2Model ----
(***************************************************************************)
(* A model of src/chronos.py: the Chronos forecasting class, the           *)
(* process-wide pyro parameter store it trains into, and the tables its    *)
(* operations take and return.                                             *)
(*                                                                         *)
(* Representation:                                                         *)
(*   - a timestamp is an integer day number since 1970-01-01;              *)
(*   - a table is a sequence of rows [idx, ds, y]; idx is the row label,   *)
(*     an optional value is <<>> (NaN / NaT) or <<v>>;                     *)
(*   - a column name is the sequence of its characters, so that Python's   *)
(*     `"weekly" in name` is a real substring test;                        *)
(*   - a fitted coefficient is the symbol [fit |-> f, pos |-> j]: the      *)
(*     value the optimiser of training run f left at position j of the     *)
(*     parameter (fit 0 is the initial value given to pyro.param);         *)
(*   - an angle is the pair <<a, b>> standing for 2*pi*a/b.                *)
(***************************************************************************)
EXTENDS Integers, Sequences, FiniteSets, TLC

VARIABLES
    self,       \* instance -> its attributes (DOMAIN self: constructed instances)
    store,      \* pyro's process-wide parameter store: name -> value
    fits,       \* number of trainings started so far in the process
    pc,         \* "idle", or "train" inside train_point_estimate's loop
    frame,      \* the locals of the running train_point_estimate
    stdout,     \* the last progress line printed
    X,          \* the design matrix X of the last call, if it built one
    call,       \* the last call made by the user
    ret         \* its outcome

vars == <<self, store, fits, pc, frame, stdout, X, call, ret>>

----------------------------------------------------------------------------
(* Bounds *)

NumInstances == 2
MaxOrder     == 2
MaxIter      == 12
MaxRows      == 2
MaxDay       == 2
MaxPeriod    == 2
MaxSamples   == 4
MaxFits      == 3

----------------------------------------------------------------------------
(* Column names *)

CONST_       == <<"C","O","N","S","T">>
weekday_     == <<"w","e","e","k","d","a","y">>
monthday_    == <<"m","o","n","t","h","d","a","y">>
yearday_     == <<"y","e","a","r","d","a","y">>
yearly       == <<"y","e","a","r","l","y">>
monthly      == <<"m","o","n","t","h","l","y">>
weekly       == <<"w","e","e","k","l","y">>
sin_         == <<"_","s","i","n","_">>
cos_         == <<"_","c","o","s","_">>
ds_          == <<"d","s">>
y_           == <<"y">>
weekly_ts_   == <<"w","e","e","k","l","y","_","t","s">>

DigitChars == <<"0","1","2","3","4","5","6","7","8","9">>

\* str(i) of an f-string, for i >= 0
RECURSIVE IntToStr(_)
IntToStr(i) ==
    IF i < 10 THEN <<DigitChars[i + 1]>>
    ELSE IntToStr(i \div 10) \o <<DigitChars[(i % 10) + 1]>>

\* f"{tag}_sin_{i}" and f"{tag}_cos_{i}"
SinName(tag, i) == tag \o sin_ \o IntToStr(i)
CosName(tag, i) == tag \o cos_ \o IntToStr(i)

\* Python's `t in s` on strings
IsSubstr(t, s) ==
    \E k \in 0..(Len(s) - Len(t)) : SubSeq(s, k + 1, k + Len(t)) = t

\* all positions of a sequence that hold e
Positions(seq, e) == {k \in 1..Len(seq) : seq[k] = e}

----------------------------------------------------------------------------
(* Calendar *)

WeekLength   == 7
MonthLength  == 31
YearLength   == 366
EpochWeekday == 3

\* lengths of the months of 1970
MonthDays == <<31, 28, 31, 30, 31, 30, 31, 31, 30, 31, 30, 31>>

\* .dt.dayofweek, Monday = 0
DayOfWeek(ds) == (ds + EpochWeekday) % WeekLength

\* .dt.dayofyear, for a day of 1970
DayOfYear(ds) == ds + 1

\* .dt.day, for a day of 1970
RECURSIVE DayInMonth(_, _)
DayInMonth(d, m) ==
    IF d < MonthDays[m] THEN d + 1 ELSE DayInMonth(d - MonthDays[m], m + 1)

DayOfMonth(ds) == DayInMonth(ds, 1)

\* two angles are the same real number
SameAngle(p, q) == p[1] * q[2] = q[1] * p[2]

----------------------------------------------------------------------------
(* Tables and data frames *)

NaN == <<>>

Row(idx, ds, y) == [idx |-> idx, ds |-> ds, y |-> y]

\* the strictly increasing sequence of the elements of a finite set of days
RECURSIVE Sorted(_)
Sorted(S) ==
    IF S = {} THEN <<>>
    ELSE LET m == CHOOSE x \in S : \A z \in S : x <= z
         IN  <<m>> \o Sorted(S \ {m})

\* a table with the default labels 0..n-1 over the days `days`
RangeTable(days, y) ==
    LET d == Sorted(days) IN [r \in 1..Len(d) |-> Row(r - 1, d[r], y)]

\* a data frame: column names and, per row, one cell per column.
\* A cell [fn, arg] is the number fn(arg): "one" the constant 1.0, "days" the
\* day number arg[1], "val" the optional value arg, "idx" the integer arg[1],
\* "sin"/"cos" of the angle arg.
Cell(fn, arg) == [fn |-> fn, arg |-> arg]

HasCol(df, name) == Positions(df.cols, name) # {}

ColIndex(df, name) ==
    CHOOSE k \in Positions(df.cols, name) : \A j \in Positions(df.cols, name) : k <= j

\* df[name] = vals
SetCol(df, name, vals) ==
    IF HasCol(df, name)
    THEN [df EXCEPT !.rows =
            [r \in 1..Len(df.rows) |->
                [df.rows[r] EXCEPT ![ColIndex(df, name)] = vals[r]]]]
    ELSE [cols |-> Append(df.cols, name),
          rows |-> [r \in 1..Len(df.rows) |-> Append(df.rows[r], vals[r])]]

\* df[name]
GetCol(df, name) == [r \in 1..Len(df.rows) |-> df.rows[r][ColIndex(df, name)]]

\* the elements of seq at the positions in keep, in order
RECURSIVE KeepAt(_, _)
KeepAt(seq, keep) ==
    IF seq = <<>> THEN <<>>
    ELSE LET rest == KeepAt(Tail(seq), {k - 1 : k \in keep \ {1}})
         IN  IF 1 \in keep THEN <<Head(seq)>> \o rest ELSE rest

\* df.drop(names, axis=1)
DropCols(df, names) ==
    LET keep == {k \in 1..Len(df.cols) : df.cols[k] \notin names}
    IN  [cols |-> KeepAt(df.cols, keep),
         rows |-> [r \in 1..Len(df.rows) |-> KeepAt(df.rows[r], keep)]]

\* df.insert(0, name, value)
InsertFirst(df, name, cell) ==
    [cols |-> <<name>> \o df.cols,
     rows |-> [r \in 1..Len(df.rows) |-> <<cell>> \o df.rows[r]]]

\* the frame of an input table of an instance
FrameOf(me, data) ==
    [cols |-> <<me.time_col_, me.target_col_>>,
     rows |-> [r \in 1..Len(data) |->
                <<Cell("ts", <<data[r].ds>>), Cell("val", data[r].y)>>]]

----------------------------------------------------------------------------
(* transform_data_ *)

\* i*2*math.pi*day/period
CyclePosition(i, day, period) == <<i * day, period>>

\* one `for i in range(1, order+1)` loop of transform_data_, from i on
RECURSIVE AddHarmonics(_, _, _, _, _, _)
AddHarmonics(df, tag, helper, period, i, order) ==
    IF i > order THEN df
    ELSE LET days == GetCol(df, helper)
             pos  == [r \in 1..Len(df.rows) |-> CyclePosition(i, days[r].arg[1], period)]
             s    == SetCol(df, SinName(tag, i), [r \in 1..Len(df.rows) |-> Cell("sin", pos[r])])
             c    == SetCol(s, CosName(tag, i), [r \in 1..Len(df.rows) |-> Cell("cos", pos[r])])
         IN  AddHarmonics(c, tag, helper, period, i + 1, order)

transform_data_(me, data) ==
    LET n  == Len(data)
        d0 == FrameOf(me, data)
        d1 == SetCol(d0, weekday_,  [r \in 1..n |-> Cell("idx", <<DayOfWeek(data[r].ds)>>)])
        d2 == SetCol(d1, monthday_, [r \in 1..n |-> Cell("idx", <<DayOfMonth(data[r].ds) - 1>>)])
        d3 == SetCol(d2, yearday_,  [r \in 1..n |-> Cell("idx", <<DayOfYear(data[r].ds) - 1>>)])
        d4 == SetCol(d3, me.time_col_, [r \in 1..n |-> Cell("days", <<data[r].ds>>)])
        d5 == AddHarmonics(d4, yearly,  yearday_,  YearLength,  1, me.year_seasonality_order_)
        d6 == AddHarmonics(d5, monthly, monthday_, MonthLength, 1, me.month_seasonality_order_)
        d7 == AddHarmonics(d6, weekly,  weekday_,  WeekLength,  1, me.weekly_seasonality_order_)
        d8 == InsertFirst(d7, CONST_, Cell("one", <<>>))
    IN  DropCols(d8, {weekday_, monthday_, yearday_})

\* a design matrix that keeps the target column
DesignMatrixWithTarget(me, data) == transform_data_(me, data)

\* internal_data.drop(self.target_col_, axis=1): the X of fit and predict
DesignMatrix(me, data) == DropCols(transform_data_(me, data), {me.target_col_})

----------------------------------------------------------------------------
(* Instances and the parameter store *)

Methods == {"MLE", "MAP", "MCMC"}

PointMethods == {"MLE", "MAP"}

\* Chronos.__init__ (learning_rate, which only scales the optimiser's steps,
\* is left out)
Chronos(method, time_col, target_col, year_order, month_order, week_order, max_iter) ==
    [method_                    |-> method,
     n_iter_                    |-> max_iter,
     year_seasonality_order_    |-> year_order,
     weekly_seasonality_order_  |-> week_order,
     month_seasonality_order_   |-> month_order,
     time_col_                  |-> time_col,
     target_col_                |-> target_col,
     attrs                      |-> {},      \* the attributes set after __init__
     history                    |-> <<>>,
     X_names                    |-> <<>>,
     model                      |-> "",
     svi_                       |-> 0]       \* the training run that built guide and svi_

\* self.<name> = ... is bound on the instance
Has(me, name) == name \in me.attrs

\* the value of training run f at position j of a parameter
Coef(f, j) == [fit |-> f, pos |-> j]

Vector(f, n) == [j \in 1..n |-> Coef(f, j)]

\* the name of the coefficient vector in the store
BetasName(method) == IF method = "MAP" THEN "AutoDelta.betas" ELSE "betas"

\* the parameters a run of model and guide declares: model_MLE_'s pyro.param
\* sites, or the sites of AutoDelta(model_MAP_)
Sites(method, ncols, f) ==
    IF method = "MAP"
    THEN [n \in {"AutoDelta.betas", "AutoDelta.sigma", "AutoDelta.df"} |->
            IF n = "AutoDelta.betas" THEN Vector(f, ncols) ELSE Vector(f, 1)]
    ELSE [n \in {"betas", "sigma"} |->
            IF n = "betas" THEN Vector(f, ncols) ELSE Vector(f, 1)]

\* a store that is not cleared
KeptStore(st) == st

\* pyro.clear_param_store()
ClearedStore(st) == [n \in {} |-> <<>>]

\* one svi_.step: the sites are created if absent and updated by the optimiser
Optimised(st, sites) ==
    [n \in DOMAIN st \cup DOMAIN sites |-> IF n \in DOMAIN sites THEN sites[n] ELSE st[n]]

\* pyro.param(name, init): the stored value if there is one, else init is stored
Declared(st, sites) ==
    [n \in DOMAIN st \cup DOMAIN sites |-> IF n \in DOMAIN st THEN st[n] ELSE sites[n]]

NoCall  == [op |-> "none", inst |-> 0]
NoRet   == [op |-> "none", inst |-> 0, status |-> "none", value |-> <<>>]
NoFrame == [inst |-> 0, done |-> 0, step |-> 0, loss |-> "none"]
NoLine  == [pct |-> 0, loss |-> "none", end |-> "none"]
NoFrameX == [cols |-> <<>>, rows |-> <<>>]

Return(op, i, value) == [op |-> op, inst |-> i, status |-> "ok", value |-> value]
Raise(op, i, error)  == [op |-> op, inst |-> i, status |-> error, value |-> <<>>]

----------------------------------------------------------------------------
(* fit and train_point_estimate *)

LossValues == {"finite", "nan", "inf"}

\* round(100*(step+1)/n_iter, 2), in hundredths of a percent
PctDone(step, n_iter) ==
    LET num == 10000 * (step + 1)
        q   == num \div n_iter
        r2  == 2 * (num % n_iter)
    IN  IF r2 > n_iter \/ (r2 = n_iter /\ q % 2 = 1) THEN q + 1 ELSE q

\* max(self.n_iter_//10000, 10)
PrintInterval(n_iter) ==
    IF n_iter \div 10000 > 10 THEN n_iter \div 10000 ELSE 10

\* a loop that also stops at a NaN loss
ContinuesWhileFinite(fr, n_iter) == fr.done < n_iter /\ fr.loss # "nan"

\* `for step in range(self.n_iter_)` has another iteration to run
LoopContinues(fr, n_iter) == fr.done < n_iter

\* fit(data), up to the first iteration of the training loop
Fit(i, data) ==
    /\ pc = "idle"
    /\ i \in DOMAIN self
    /\ \E Xd \in {DesignMatrix(self[i], data)} :
       LET me == self[i]
           me1 == [me EXCEPT !.history = data,
                             !.X_names = Xd.cols,
                             !.attrs = @ \cup {"history", "X_names"}]
       IN  /\ X' = Xd
           /\ call' = [op |-> "fit", inst |-> i, data |-> data]
           /\ IF me.method_ \in PointMethods
              THEN /\ fits < MaxFits
                   /\ fits' = fits + 1
                   /\ self' = [self EXCEPT ![i] =
                                [me1 EXCEPT !.model = IF me.method_ = "MLE"
                                                      THEN "model_MLE_" ELSE "model_MAP_",
                                            !.svi_ = fits + 1,
                                            !.attrs = @ \cup {"model", "guide", "svi_"}]]
                   /\ store' = ClearedStore(store)
                   /\ frame' = [inst |-> i, done |-> 0, step |-> 0, loss |-> "none"]
                   /\ pc' = "train"
                   /\ ret' = NoRet
                   /\ UNCHANGED stdout
              ELSE \* `elif (self.method == "MCMC")`: the attribute is method_
                   /\ self' = [self EXCEPT ![i] = me1]
                   /\ ret' = Raise("fit", i, "AttributeError")
                   /\ UNCHANGED <<store, fits, pc, frame, stdout>>

\* one iteration of the loop of train_point_estimate
TrainStep(loss) ==
    /\ pc = "train"
    /\ LET me   == self[frame.inst]
           step == frame.done
       IN  /\ LoopContinues(frame, me.n_iter_)
           /\ store' = Optimised(store, Sites(me.method_, Len(X.cols), me.svi_))
           /\ frame' = [frame EXCEPT !.done = step + 1, !.step = step, !.loss = loss]
           /\ stdout' = IF step % PrintInterval(me.n_iter_) = 0
                        THEN [pct |-> PctDone(step, me.n_iter_), loss |-> loss, end |-> "\r"]
                        ELSE stdout
    /\ UNCHANGED <<self, fits, pc, X, call, ret>>

\* the end of train_point_estimate, and of fit
TrainEnd ==
    /\ pc = "train"
    /\ LET me == self[frame.inst]
       IN  /\ ~LoopContinues(frame, me.n_iter_)
           /\ stdout' = [pct |-> PctDone(frame.step, me.n_iter_),
                         loss |-> frame.loss, end |-> "\n"]
           /\ ret' = Return("fit", frame.inst, <<>>)
    /\ pc' = "idle"
    /\ UNCHANGED <<self, store, fits, frame, X, call>>

----------------------------------------------------------------------------
(* predict *)

RECURSIVE Sum(_)
Sum(seq) == IF seq = <<>> THEN 0 ELSE Head(seq) + Sum(Tail(seq))

\* the n posterior-predictive samples of one row form a multiset, held as a
\* nondecreasing sequence
SampleSets(n, values) ==
    {s \in [1..n -> values] : \A k \in 1..(n - 1) : s[k] <= s[k + 1]}

\* samples['obs']: for each of `rows` rows, its n samples
Draws(rows, n, values) == [1..rows -> SampleSets(n, values)]

\* int(len(samples['obs']) * space_on_each_side), for ci_interval = ci[1]/ci[2]
LowerNtile(n, ci) == (n * (ci[2] - ci[1])) \div (2 * ci[2])

\* int(len(samples['obs']) * (1.0 - space_on_each_side))
UpperNtile(n, ci) == (n * (ci[2] + ci[1])) \div (2 * ci[2])

\* tensor.kthvalue(k, dim=0) accepts the ranks 1..n only
ValidRank(k, n) == 1 <= k /\ k <= n

\* the k-th smallest of one row's samples
KthValue(s, k) == s[k]

\* torch.mean(samples['obs'], 0) of one row, as the fraction <<sum, n>>
Mean(s) == <<Sum(s), Len(s)>>

\* predictions[self.time_col_] = data[self.time_col_]: the value a Series
\* gives to the row of the result whose label is `label`
Aligned(data, label) ==
    LET at == {k \in 1..Len(data) : data[k].idx = label}
    IN  IF at = {} THEN NaN ELSE <<data[CHOOSE k \in at : TRUE].ds>>

\* the table predict returns
Predictions(data, samples, lower_ntile, upper_ntile) ==
    [r \in 1..Len(data) |->
        [ds         |-> Aligned(data, r - 1),
         y          |-> data[r].y,
         yhat       |-> Mean(samples[r]),
         yhat_upper |-> KthValue(samples[r], upper_ntile),
         yhat_lower |-> KthValue(samples[r], lower_ntile)]]

\* predict(data, sample_number, ci_interval), with the samples Predictive draws.
\* `own` tells whether a guide whose sites are gone from the store puts its own
\* fitted values back or fresh initial ones.
Predict(i, data, sample_number, ci_interval, samples, own) ==
    /\ pc = "idle"
    /\ i \in DOMAIN self
    /\ \E Xd \in {DesignMatrix(self[i], data)} :
       LET me    == self[i]
           ncols == Len(Xd.cols)
           init  == IF me.method_ = "MAP"
                    THEN Sites("MAP", Len(me.X_names), IF own THEN me.svi_ ELSE 0)
                    ELSE Sites("MLE", ncols, 0)
           st1   == Declared(store, init)
           lo    == LowerNtile(sample_number, ci_interval)
           up    == UpperNtile(sample_number, ci_interval)
       IN  /\ X' = Xd
           /\ call' = [op |-> "predict", inst |-> i, data |-> data,
                       sample_number |-> sample_number, ci_interval |-> ci_interval,
                       samples |-> samples]
           /\ IF me.method_ \notin PointMethods
              THEN /\ ret' = Raise("predict", i, "NotImplementedError")
                   /\ UNCHANGED store
              ELSE IF ~Has(me, "model")
              THEN /\ ret' = Raise("predict", i, "AttributeError")
                   /\ UNCHANGED store
              ELSE IF Len(st1[BetasName(me.method_)]) # ncols
              THEN \* X.matmul(betas) on mismatched sizes
                   /\ ret' = Raise("predict", i, "RuntimeError")
                   /\ UNCHANGED store
              ELSE /\ store' = st1
                   /\ ret' = IF ValidRank(lo, sample_number) /\ ValidRank(up, sample_number)
                             THEN Return("predict", i, Predictions(data, samples, lo, up))
                             ELSE Raise("predict", i, "RuntimeError")
    /\ UNCHANGED <<self, fits, pc, frame, stdout>>

----------------------------------------------------------------------------
(* make_future_dataframe *)

\* a frequency string: a multiple of a day ("D", "2D"), or "W", the Sundays
Freq(step, anchored) == [step |-> step, anchored |-> anchored]

Frequencies == {Freq(1, FALSE), Freq(2, FALSE), Freq(WeekLength, TRUE)}

\* the first date of the frequency that is not before `start`
RollForward(start, freq) ==
    IF freq.anchored
    THEN start + ((WeekLength - 1 - DayOfWeek(start)) % WeekLength)
    ELSE start

\* pd.date_range(start=start, periods=periods, freq=freq)
date_range(start, periods, freq) ==
    [k \in 1..periods |-> RollForward(start, freq) + (k - 1) * freq.step]

\* self.history[self.time_col_].max()
MaxDate(history) ==
    CHOOSE m \in {history[r].ds : r \in 1..Len(history)} :
        \A r \in 1..Len(history) : history[r].ds <= m

\* the dates with the anchor kept
AllDates(dates) == dates

\* date_range[1:]
FutureDates(dates) == Tail(dates)

\* pd.concat([past_df, future_df], axis=0).reset_index(drop=True)
Concat(past_df, future_df) ==
    LET both == past_df \o future_df
    IN  [r \in 1..Len(both) |-> [both[r] EXCEPT !.idx = r - 1]]

\* the table make_future_dataframe returns
FutureFrame(history, period, freq, include_history) ==
    LET dates  == FutureDates(date_range(MaxDate(history), period + 1, freq))
        future == [k \in 1..Len(dates) |-> Row(k - 1, dates[k], NaN)]
    IN  Concat(history, future)

make_future_dataframe(i, period, frequency, include_history) ==
    /\ pc = "idle"
    /\ i \in DOMAIN self
    /\ call' = [op |-> "make_future_dataframe", inst |-> i, period |-> period,
                frequency |-> frequency, include_history |-> include_history]
    /\ ret' = IF Has(self[i], "history")
              THEN Return("make_future_dataframe", i,
                          FutureFrame(self[i].history, period, frequency, include_history))
              ELSE Raise("make_future_dataframe", i, "AttributeError")
    /\ X' = NoFrameX
    /\ UNCHANGED <<self, store, fits, pc, frame, stdout>>

----------------------------------------------------------------------------
(* The seasonality getters *)

\* the coefficients the loop `for i, param in enumerate(pyro.param(param_name))`
\* appends: those at the positions whose name in X_names contains the tag
Selected(betas, names, tag) ==
    KeepAt(betas, {k \in 1..Len(betas) : IsSubstr(tag, names[k])})

\* np.array(params).reshape(-1, 2)
Reshape2(params) ==
    [k \in 1..(Len(params) \div 2) |-> <<params[2 * k - 1], params[2 * k]>>]

\* the periods the three getters divide by, and their day ranges
WeeklyDays    == 7
MonthlyDays   == 31
YearlyDays    == 366
WeeklyPeriod  == 7
MonthlyPeriod == 30
YearlyPeriod  == 366

\* cycle_order * 2 * math.pi * days/period of a getter
CyclePos(cycle_order, day, period) == <<cycle_order * day, period>>

\* the value of one day: the terms sin_coef*sin(cycle_pos) + cosin_coef*cos(cycle_pos)
\* of the pairs, which the getter sums
Seasonality(pairs, day, period) ==
    [k \in 1..Len(pairs) |->
        [sin_coef   |-> pairs[k][1],
         cosin_coef |-> pairs[k][2],
         cycle_pos  |-> CyclePos(k, day, period)]]

\* get_<frequency>_seasonality_point(param_name): the outcome
SeasonalityPoint(op, i, me, st, param_name, tag, ndays, period, first) ==
    IF param_name \notin DOMAIN st
    THEN Raise(op, i, "KeyError")
    ELSE IF ~Has(me, "X_names")
    THEN Raise(op, i, "AttributeError")
    ELSE IF Len(st[param_name]) > Len(me.X_names)
    THEN Raise(op, i, "IndexError")
    ELSE LET params == Selected(st[param_name], me.X_names, tag)
         IN  IF Len(params) % 2 # 0
             THEN Raise(op, i, "ValueError")
             ELSE Return(op, i,
                         [d \in 1..ndays |->
                            [day   |-> (d - 1) + first,
                             value |-> Seasonality(Reshape2(params), d - 1, period)]])

\* a getter that takes every method but "MAP" for "MLE"
GetSeasonalityByDefault(op, i, me, st, tag, ndays, period, first) ==
    IF me.method_ = "MAP"
    THEN SeasonalityPoint(op, i, me, st, "AutoDelta.betas", tag, ndays, period, first)
    ELSE SeasonalityPoint(op, i, me, st, "betas", tag, ndays, period, first)

\* get_<frequency>_seasonality: the outcome
GetSeasonality(op, i, me, st, tag, ndays, period, first) ==
    IF me.method_ = "MAP"
    THEN SeasonalityPoint(op, i, me, st, "AutoDelta.betas", tag, ndays, period, first)
    ELSE IF me.method_ = "MLE"
    THEN SeasonalityPoint(op, i, me, st, "betas", tag, ndays, period, first)
    ELSE Raise(op, i, "NotImplementedError")

Getter(op, i, outcome) ==
    /\ pc = "idle"
    /\ i \in DOMAIN self
    /\ call' = [op |-> op, inst |-> i]
    /\ ret' = outcome
    /\ X' = NoFrameX
    /\ UNCHANGED <<self, store, fits, pc, frame, stdout>>

get_weekly_seasonality(i) ==
    Getter("get_weekly_seasonality", i,
           GetSeasonality("get_weekly_seasonality", i, self[i], store,
                          weekly, WeeklyDays, WeeklyPeriod, 0))

get_monthly_seasonality(i) ==
    Getter("get_monthly_seasonality", i,
           GetSeasonality("get_monthly_seasonality", i, self[i], store,
                          monthly, MonthlyDays, MonthlyPeriod, 1))

get_yearly_seasonality(i) ==
    Getter("get_yearly_seasonality", i,
           GetSeasonality("get_yearly_seasonality", i, self[i], store,
                          yearly, YearlyDays, YearlyPeriod, 1))

----------------------------------------------------------------------------
(* Inputs *)

Days == 0..MaxDay

Known == <<1>>

\* the sets of at most `rows` days
DaySets(rows) == {D \in SUBSET Days : D # {} /\ Cardinality(D) <= rows}

\* the tables with default labels over these day sets and target values
TablesOn(daysets, targets) == {RangeTable(D, y) : D \in daysets, y \in targets}

\* the filtered subsets of these tables (which keep the labels of their rows)
Slices(tables) ==
    UNION {{KeepAt(t, keep) : keep \in SUBSET (1..Len(t)) \ {{}}} : t \in tables}

Daily == Freq(1, FALSE)

\* the input sets of the specifications below
OneHistory    == TablesOn({Days}, {Known})
OneFuture     == TablesOn({Days}, {NaN})
OneRow        == TablesOn({{0}}, {NaN})
Histories     == TablesOn(DaySets(MaxRows), {Known})
Futures       == TablesOn(DaySets(MaxRows), {NaN})
Subsets       == Slices(Histories)
OneNumber     == {MaxSamples}
SampleNumbers == 1..MaxSamples
OneLevel      == {<<1, 2>>}
OneValue      == {0}
OnePeriod     == {1}
Periods       == 1..MaxPeriod
OneFrequency  == {Daily}

\* confidence levels 1/4, 1/2 and 3/4, exact in binary floating point
Levels == {<<1, 4>>, <<1, 2>>, <<3, 4>>}

\* the instances, all built with configurations of `configs`
Constructed(k, configs) ==
    /\ self \in [1..k -> configs]
    /\ store = <<>>
    /\ fits = 0
    /\ pc = "idle"
    /\ frame = NoFrame
    /\ stdout = NoLine
    /\ X = NoFrameX
    /\ call = NoCall
    /\ ret = NoRet

Configs(methods, time_cols, year_orders, month_orders, week_orders, iters) ==
    {Chronos(m, t, y_, yo, mo, wo, n) :
        m \in methods, t \in time_cols, yo \in year_orders,
        mo \in month_orders, wo \in week_orders, n \in iters}

\* fit on one of these tables, and the training loop
Fitting(tables) ==
    \/ \E i \in DOMAIN self, data \in tables : Fit(i, data)
    \/ \E loss \in LossValues : TrainStep(loss)
    \/ TrainEnd

\* predict on one of these tables, its samples drawn from `values`
Predicting(tables, numbers, levels, values) ==
    \E i \in DOMAIN self, data \in tables, n \in numbers, ci \in levels :
        \E samples \in Draws(Len(data), n, values),
           own \in IF self[i].method_ = "MAP" THEN BOOLEAN ELSE {FALSE} :
            Predict(i, data, n, ci, samples, own)

Extending(periods, frequencies) ==
    \E i \in DOMAIN self, p \in periods, f \in frequencies, h \in BOOLEAN :
        make_future_dataframe(i, p, f, h)

Decomposing ==
    \/ \E i \in DOMAIN self : get_weekly_seasonality(i)
    \/ \E i \in DOMAIN self : get_monthly_seasonality(i)
    \/ \E i \in DOMAIN self : get_yearly_seasonality(i)

----------------------------------------------------------------------------
(* Spec: several instances of every method share the parameter store *)

Init == Constructed(NumInstances, Configs(Methods, {ds_}, {1}, {1}, {1}, {1}))

Next ==
    \/ Fitting(OneHistory)
    \/ Predicting(OneFuture, OneNumber, OneLevel, OneValue)
    \/ Extending(OnePeriod, OneFrequency)
    \/ Decomposing

Spec == Init /\ [][Next]_vars

----------------------------------------------------------------------------
(* SpecFrame: one instance, histories and prediction tables of every shape *)

InitFrame == Constructed(1, Configs(Methods, {ds_}, {1}, {1}, {1}, {1}))

NextFrame ==
    \/ Fitting(Histories)
    \/ Predicting(Subsets, OneNumber, OneLevel, OneValue)
    \/ Extending(Periods, Frequencies)
    \/ Decomposing

SpecFrame == InitFrame /\ [][NextFrame]_vars

(* SpecCols: one instance, every harmonic order and time-column name *)

TimeCols == {ds_, weekly_ts_}

InitCols ==
    Constructed(1, Configs(Methods, TimeCols, 0..MaxOrder, 0..MaxOrder, 0..MaxOrder, {1}))

NextCols ==
    \/ Fitting(OneHistory)
    \/ Predicting(Futures, OneNumber, OneLevel, OneValue)
    \/ Extending(OnePeriod, OneFrequency)
    \/ Decomposing

SpecCols == InitCols /\ [][NextCols]_vars

(* SpecTrain: one instance, every iteration budget *)

InitTrain == Constructed(1, Configs(Methods, {ds_}, {1}, {1}, {1}, 1..MaxIter))

SpecTrain == InitTrain /\ [][Next]_vars

(* SpecInterval: one fitted-by-MLE-or-MAP instance, every table of samples *)

MaxSampleValue == 1

SampleValues == 0..MaxSampleValue

InitInterval == Constructed(1, Configs(PointMethods, {ds_}, {1}, {1}, {1}, {1}))

NextInterval ==
    \/ Fitting(OneHistory)
    \/ Predicting(OneRow, SampleNumbers, Levels, SampleValues)
    \/ Extending(OnePeriod, OneFrequency)
    \/ Decomposing

SpecInterval == InitInterval /\ [][NextInterval]_vars

----------------------------------------------------------------------------
(* Properties *)

Getters == {"get_weekly_seasonality", "get_monthly_seasonality", "get_yearly_seasonality"}

\* the last call was `op` and it returned a value
Returned(op) == ret.op = op /\ ret.status = "ok"

\* C1: every row of a predict result has yhat_lower <= yhat <= yhat_upper, yhat
\* being the mean of the row's samples and the bounds the order statistics
\* predict selects, whatever the samples, their number and the level.
C1_MeanWithinInterval ==
    Returned("predict") =>
        \A r \in 1..Len(ret.value) :
            LET row == ret.value[r]
            IN  /\ row.yhat_lower * row.yhat[2] <= row.yhat[1]
                /\ row.yhat[1] <= row.yhat_upper * row.yhat[2]

\* C2: on an instance whose method is neither "MLE" nor "MAP", predict and the
\* three seasonality getters end in NotImplementedError, whatever was called
\* before and whatever the store holds.
C2_UnsupportedMethodRaises ==
    (ret.op \in Getters \cup {"predict"} /\ self[ret.inst].method_ \notin PointMethods)
        => ret.status = "NotImplementedError"

C2_Witness ==
    /\ ret.op = "predict"
    /\ self[ret.inst].method_ = "MCMC"
    /\ ret.status = "NotImplementedError"
    /\ Has(self[ret.inst], "history")
    /\ DOMAIN store # {}

\* the names f"{tag}_sin_{k}", f"{tag}_cos_{k}" for k = 1..order
Harmonics(tag, order) ==
    [k \in 1..(2 * order) |->
        IF k % 2 = 1 THEN SinName(tag, (k + 1) \div 2) ELSE CosName(tag, k \div 2)]

HarmonicCount(me) ==
    2 * (me.year_seasonality_order_ + me.month_seasonality_order_
         + me.weekly_seasonality_order_)

\* the last call built a design matrix: X, of the table call.data
Built == call.op \in {"fit", "predict"}

\* C3 (as amended): the design matrix of fit and predict, for a series of a time
\* and a target column, has exactly 2 + 2(Y+M+W) columns: the constant, the time
\* column as a day number, then the sin and cos of every yearly, monthly and
\* weekly order; and it has one row per row of the series.
C3_DesignMatrixShape ==
    Built =>
        LET me == self[call.inst]
        IN  /\ Len(X.cols) = 2 + HarmonicCount(me)
            /\ X.cols = <<CONST_, me.time_col_>>
                          \o Harmonics(yearly, me.year_seasonality_order_)
                          \o Harmonics(monthly, me.month_seasonality_order_)
                          \o Harmonics(weekly, me.weekly_seasonality_order_)
            /\ Len(X.rows) = Len(call.data)
            /\ \A r \in 1..Len(X.rows) :
                /\ Len(X.rows[r]) = Len(X.cols)
                /\ X.rows[r][1].fn = "one"
                /\ X.rows[r][2].fn = "days"

\* C3 (as stated): the design matrix has exactly 1 + 2(Y+M+W) columns and one
\* row per row of the series.
C3_OneConstantPlusHarmonics ==
    Built =>
        /\ Len(X.cols) = 1 + HarmonicCount(self[call.inst])
        /\ Len(X.rows) = Len(call.data)

C3_Witness ==
    /\ call.op = "predict"
    /\ self[call.inst].year_seasonality_order_ = MaxOrder
    /\ self[call.inst].month_seasonality_order_ = MaxOrder
    /\ self[call.inst].weekly_seasonality_order_ = MaxOrder
    /\ Len(X.rows) = MaxRows
    /\ Len(X.cols) = 2 + 6 * MaxOrder

\* C4: after a fit, make_future_dataframe(period=p, include_history=True)
\* returns history-row-count + p rows; the p appended rows have timestamps
\* later than every historical one, spaced by the frequency, and a NaN target.
C4_FutureRowsFollowHistory ==
    (Returned("make_future_dataframe") /\ call.include_history) =>
        LET h   == self[ret.inst].history
            out == ret.value
        IN  /\ Len(out) = Len(h) + call.period
            /\ \A k \in 1..call.period :
                LET row == out[Len(h) + k]
                IN  /\ \A r \in 1..Len(h) : row.ds > h[r].ds
                    /\ row.y = NaN
                    /\ k > 1 => row.ds - out[Len(h) + k - 1].ds = call.frequency.step
                    /\ call.frequency.anchored => DayOfWeek(row.ds) = WeekLength - 1

C4_Witness ==
    /\ Returned("make_future_dataframe")
    /\ call.include_history
    /\ call.period = MaxPeriod
    /\ call.frequency.anchored
    /\ Len(self[ret.inst].history) = MaxRows

\* C5: make_future_dataframe honours include_history: with False it returns
\* only the `period` future rows, with True the history rows followed by them.
C5_HonoursIncludeHistory ==
    Returned("make_future_dataframe") =>
        LET h   == self[ret.inst].history
            out == ret.value
        IN  IF call.include_history
            THEN /\ Len(out) = Len(h) + call.period
                 /\ \A r \in 1..Len(h) : out[r].ds = h[r].ds /\ out[r].y = h[r].y
            ELSE /\ Len(out) = call.period
                 /\ \A r \in 1..Len(out) : \A q \in 1..Len(h) : out[r].ds > h[q].ds

\* C6: predict returns one row per input row, in input order, row r carrying
\* the timestamp and the target of input row r, whatever the row labels.
C6_RowsAligned ==
    Returned("predict") =>
        /\ Len(ret.value) = Len(call.data)
        /\ \A r \in 1..Len(ret.value) :
            /\ ret.value[r].ds = <<call.data[r].ds>>
            /\ ret.value[r].y = call.data[r].y

\* what the latest training writes to the store
LatestWrites ==
    Sites(self[frame.inst].method_, Len(self[frame.inst].X_names), fits)

\* the coefficients a getter's result is made of
CoefsIn(value) ==
    UNION {{value[d].value[k].sin_coef, value[d].value[k].cosin_coef} :
           d \in 1..Len(value), k \in 1..Len(value[1].value)}

\* C7: a training starts from an empty store, and when a point-estimate fit
\* returns the store holds exactly what that fit wrote; a getter then called on
\* an instance fitted earlier reads the latest fit's coefficients or finds its
\* parameter name missing, never its own.
C7_StoreHoldsLatestFitOnly ==
    /\ pc = "train" =>
        IF frame.done = 0 THEN DOMAIN store = {} ELSE store = LatestWrites
    /\ Returned("fit") => store = LatestWrites
    /\ ( /\ ret.op \in Getters
         /\ self[ret.inst].method_ \in PointMethods
         /\ 0 < self[ret.inst].svi_
         /\ self[ret.inst].svi_ < fits
         /\ store = LatestWrites )
        => \/ ret.status = "KeyError"
           \/ /\ ret.status = "ok"
              /\ \A c \in CoefsIn(ret.value) : c.fit = fits

C7_Witness ==
    /\ ret.op \in Getters
    /\ ret.status = "ok"
    /\ 0 < self[ret.inst].svi_
    /\ self[ret.inst].svi_ < fits
    /\ store = LatestWrites
    /\ CoefsIn(ret.value) # {}

TagOf(op) ==
    IF op = "get_weekly_seasonality" THEN weekly
    ELSE IF op = "get_monthly_seasonality" THEN monthly ELSE yearly

OrderOf(me, op) ==
    IF op = "get_weekly_seasonality" THEN me.weekly_seasonality_order_
    ELSE IF op = "get_monthly_seasonality" THEN me.month_seasonality_order_
    ELSE me.year_seasonality_order_

IndexOf(seq, e) == CHOOSE k \in Positions(seq, e) : TRUE

\* C8: on a fitted instance of any configuration of positive orders and any
\* time-column name, each getter selects exactly
\* the 2*order coefficients at the positions of its frequency's sin_k / cos_k
\* columns: pair k is (coefficient of sin_k, coefficient of cos_k).
C8_SelectsOwnHarmonics ==
    ( /\ ret.op \in Getters
      /\ self[ret.inst].method_ \in PointMethods
      /\ self[ret.inst].year_seasonality_order_ > 0
      /\ self[ret.inst].month_seasonality_order_ > 0
      /\ self[ret.inst].weekly_seasonality_order_ > 0
      /\ Has(self[ret.inst], "svi_") )
        => LET me    == self[ret.inst]
               betas == store[BetasName(me.method_)]
               tag   == TagOf(ret.op)
           IN  /\ ret.status = "ok"
               /\ \A d \in 1..Len(ret.value) :
                    /\ Len(ret.value[d].value) = OrderOf(me, ret.op)
                    /\ \A k \in 1..Len(ret.value[d].value) :
                        /\ ret.value[d].value[k].sin_coef
                             = betas[IndexOf(me.X_names, SinName(tag, k))]
                        /\ ret.value[d].value[k].cosin_coef
                             = betas[IndexOf(me.X_names, CosName(tag, k))]

\* C9: for every positive max_iter, train_point_estimate makes exactly
\* max_iter optimisation steps whatever losses it sees, and ends by printing
\* 100% completion.
C9_RunsAllIterations ==
    /\ pc = "train" => frame.done <= self[frame.inst].n_iter_
    /\ Returned("fit") =>
        /\ frame.done = self[ret.inst].n_iter_
        /\ stdout = [pct |-> 10000, loss |-> frame.loss, end |-> "\n"]

C9_Witness ==
    /\ Returned("fit")
    /\ frame.loss = "nan"
    /\ frame.done = MaxIter

\* the period transform_data_ divides a frequency's day index by
TransformPeriod(op) ==
    IF op = "get_weekly_seasonality" THEN WeekLength
    ELSE IF op = "get_monthly_seasonality" THEN MonthLength ELSE YearLength

\* C10: for each frequency, order k and day index d of the frequency's range,
\* the phase the getter evaluates equals the phase transform_data_ gives a
\* timestamp whose day index is d.
C10_GetterPhaseIsTransformPhase ==
    (ret.op \in Getters /\ ret.status = "ok") =>
        \A d \in 1..Len(ret.value) :
            \A k \in 1..Len(ret.value[d].value) :
                SameAngle(ret.value[d].value[k].cycle_pos,
                          CyclePosition(k, d - 1, TransformPeriod(ret.op)))

\* C11: whenever predict is called on a fitted "MLE" or "MAP" instance with a
\* sample count n >= 1 and a level 0 < c < 1, its two ranks k_lo = floor(n(1-c)/2)
\* and k_hi = floor(n(1-(1-c)/2)) satisfy 1 <= k_lo <= k_hi <= n, and predict
\* returns a result.
C11_RanksAreValid ==
    ( /\ ret.op = "predict"
      /\ self[ret.inst].method_ \in PointMethods
      /\ Has(self[ret.inst], "model")
      /\ call.sample_number >= 1
      /\ 0 < call.ci_interval[1]
      /\ call.ci_interval[1] < call.ci_interval[2] )
        => LET n    == call.sample_number
               k_lo == LowerNtile(n, call.ci_interval)
               k_hi == UpperNtile(n, call.ci_interval)
           IN  /\ 1 <= k_lo
               /\ k_lo <= k_hi
               /\ k_hi <= n
               /\ ret.status = "ok"

\* a step that is a whole call of fit on instance i: entered and left idle
FitCall(i) ==
    /\ pc = "idle"
    /\ pc' = "idle"
    /\ call'.op = "fit"
    /\ call'.inst = i
    /\ ret'.op = "fit"

\* C12: fit on an instance whose method is "MCMC" completes without raising,
\* trains nothing, leaves the parameter store as it was, and records only the
\* history and the feature names on the instance.
C12_FitMCMCOnlyRecords ==
    [][\A i \in DOMAIN self :
        (FitCall(i) /\ self[i].method_ = "MCMC")
            => /\ ret'.status = "ok"
               /\ store' = store
               /\ fits' = fits
               /\ self' = [self EXCEPT ![i] =
                            [@ EXCEPT !.history = call'.data,
                                      !.X_names = X'.cols,
                                      !.attrs = @ \cup {"history", "X_names"}]]]_vars

====
